---- MODULE Spec2Model ----
(***************************************************************************)
(* Model of the brunch bundle generation engine:                           *)
(*   - the worker entry point (job protocol over process messages),        *)
(*   - generate(): sort, concat, the optimizer chain and the final writes, *)
(*   - createJoinConfig(): resolution of joinTo / entryPoints,             *)
(*   - sort(): ordering of the files of one target.                        *)
(* Each part has its own specification over the shared variables.          *)
(***************************************************************************)
EXTENDS Integers, Sequences, FiniteSets, TLC

\* ------------------------------------------------------------------------
\* Bounds
\* ------------------------------------------------------------------------
\* number of job messages the coordinator sends to one worker
MaxJobs == 3

\* longest `before` / `after` list of an order config
MaxListLen == 2

\* number of entry points of config.files.javascripts
MaxEntryPoints == 2

\* number of registered plugins that respond to `optimize`
NumOptimizers == 2

\* ------------------------------------------------------------------------
\* State
\* ------------------------------------------------------------------------
VARIABLES
  \* worker
  initPhase,   \* position of the start-up promise chain
  cfg,         \* `cfg` module variable of the worker
  plugs,       \* `plugs` module variable of the worker
  sent,        \* messages passed to process.send, in order
  received,    \* job messages delivered to the 'message' handler
  pending,     \* jobs whose work promise has not settled yet
  crashed      \* the worker process died of an uncaught exception

VARIABLES
  \* sort
  sortIn,      \* arguments of one call of sort(files, config, joinToValue)
  sortOut      \* what the call returned

VARIABLES
  \* join resolution
  joinIn,      \* arguments of one call of createJoinConfig(cfgFiles, paths)
  joinOut      \* what the call returned

VARIABLES
  \* generation
  genCfg,      \* config, registered optimizers and the targets of the cycle
  gen,         \* per target: the state of its generate() call
  disk         \* the files written so far: path to content

VARIABLES
  \* sort and concat of one target
  bundleIn,    \* the target and the order config of one run of sort and concat
  bundleOut    \* the sorted files and the concatenated code

workerVars == <<initPhase, cfg, plugs, sent, received, pending, crashed>>

sortVars == <<sortIn, sortOut>>

joinVars == <<joinIn, joinOut>>

genVars == <<genCfg, gen, disk>>

bundleVars == <<bundleIn, bundleOut>>

vars == <<initPhase, cfg, plugs, sent, received, pending, crashed,
          sortIn, sortOut, joinIn, joinOut, genCfg, gen, disk,
          bundleIn, bundleOut>>

\* a value no operation of the program produces
None == "none"

\* ------------------------------------------------------------------------
\* Worker (workers entry point)
\* ------------------------------------------------------------------------
\* the job kinds the worker knows: const jobs = {OptimizeJob, CompileJob}
jobs == {"OptimizeJob", "CompileJob"}

\* the types a coordinator may put into a message
MsgTypes == jobs \cup {"UnknownJob"}

JobIds == 1..MaxJobs

ReadyMsg == [kind |-> "ready", id |-> 0]

ResultMsg(id) == [kind |-> "result", id |-> id]

ErrorMsg(id) == [kind |-> "error", id |-> id]

WorkerInit ==
  /\ initPhase = "loadingConfig"
  /\ cfg = "unset"
  /\ plugs = "unset"
  /\ sent = <<>>
  /\ received = {}
  /\ pending = {}
  /\ crashed = FALSE

\* variant of LoadConfigResolves that signals readiness as soon as the
\* config is there, without waiting for plugins.init
LoadConfigResolves_ReadyEarly ==
  /\ ~crashed
  /\ initPhase = "loadingConfig"
  /\ cfg' = "loaded"
  /\ sent' = Append(sent, [kind |-> "ready", id |-> 0])
  /\ initPhase' = "loadingPlugins"
  /\ UNCHANGED <<plugs, received, pending, crashed>>
  /\ UNCHANGED <<sortVars, joinVars, genVars, bundleVars>>

\* application.loadConfigWorker(false, options) resolves: cfg = _cfg and
\* plugins.init(cfg, ...) is started.
LoadConfigResolves ==
  /\ ~crashed
  /\ initPhase = "loadingConfig"
  /\ cfg' = "loaded"
  /\ initPhase' = "loadingPlugins"
  /\ UNCHANGED <<plugs, sent, received, pending, crashed>>
  /\ UNCHANGED <<sortVars, joinVars, genVars, bundleVars>>

\* loadConfigWorker rejects: the chain has no rejection handler, nothing is
\* assigned and nothing is sent.  Whether the unhandled rejection ends the
\* process depends on the runtime, so both outcomes are possible.
LoadConfigRejects ==
  /\ ~crashed
  /\ initPhase = "loadingConfig"
  /\ initPhase' = "failed"
  /\ crashed' \in BOOLEAN
  /\ UNCHANGED <<cfg, plugs, sent, received, pending>>
  /\ UNCHANGED <<sortVars, joinVars, genVars, bundleVars>>

\* plugins.init resolves: plugs = _plugins; process.send('ready').
PluginsInitResolves ==
  /\ ~crashed
  /\ initPhase = "loadingPlugins"
  /\ plugs' = "loaded"
  /\ sent' = Append(sent, ReadyMsg)
  /\ initPhase' = "ready"
  /\ UNCHANGED <<cfg, received, pending, crashed>>
  /\ UNCHANGED <<sortVars, joinVars, genVars, bundleVars>>

PluginsInitRejects ==
  /\ ~crashed
  /\ initPhase = "loadingPlugins"
  /\ initPhase' = "failed"
  /\ crashed' \in BOOLEAN
  /\ UNCHANGED <<cfg, plugs, sent, received, pending>>
  /\ UNCHANGED <<sortVars, joinVars, genVars, bundleVars>>

\* processMsg(msg): what the synchronous part of the handler does.
\*   "throws"  : jobs[type] is undefined (job.deserialize is a TypeError) or
\*               job.deserialize throws
\*   "promise" : job.work(hash) was called and returned its promise
processMsg(type, deserializeThrows) ==
  IF type \notin jobs THEN "throws"
  ELSE IF deserializeThrows THEN "throws"
  ELSE "promise"

\* process.on('message', msg => processMsg(msg).then(onResult, onError)).
\* The handler is registered when the module is loaded, so it runs in every
\* phase of the initialization.  An exception thrown by processMsg is thrown
\* out of the event handler: nothing is sent and the process dies.
OnMessage(id, type, deserializeThrows) ==
  /\ ~crashed
  /\ id \notin {r.id : r \in received}
  /\ \A j \in JobIds : j < id => j \in {r.id : r \in received}
  /\ received' = received \cup {[id |-> id, type |-> type, plugins |-> plugs]}
  /\ IF processMsg(type, deserializeThrows) = "throws"
       THEN /\ crashed' = TRUE
            /\ UNCHANGED pending
       ELSE /\ pending' = pending \cup {id}
            /\ UNCHANGED crashed
  /\ UNCHANGED <<initPhase, cfg, plugs, sent>>
  /\ UNCHANGED <<sortVars, joinVars, genVars, bundleVars>>

\* the work promise fulfils: result => process.send({result}).  process.send
\* throws on a result the channel cannot serialize (an object that refers
\* to itself): then nothing is sent, the exception is a rejection nobody
\* handles, and whether that ends the process depends on the runtime.
WorkResolves(id, sendThrows) ==
  /\ ~crashed
  /\ id \in pending
  /\ pending' = pending \ {id}
  /\ IF sendThrows
       THEN /\ UNCHANGED sent
            /\ crashed' \in BOOLEAN
       ELSE /\ sent' = Append(sent, ResultMsg(id))
            /\ UNCHANGED crashed
  /\ UNCHANGED <<initPhase, cfg, plugs, received>>
  /\ UNCHANGED <<sortVars, joinVars, genVars, bundleVars>>

\* the work promise rejects: error => process.send({error: error.message}).
\* error.message throws when the promise was rejected with undefined or
\* null: then nothing is sent and the exception is a rejection nobody
\* handles, as above.
WorkRejects(id, errorIsNullish) ==
  /\ ~crashed
  /\ id \in pending
  /\ pending' = pending \ {id}
  /\ IF errorIsNullish
       THEN /\ UNCHANGED sent
            /\ crashed' \in BOOLEAN
       ELSE /\ sent' = Append(sent, ErrorMsg(id))
            /\ UNCHANGED crashed
  /\ UNCHANGED <<initPhase, cfg, plugs, received>>
  /\ UNCHANGED <<sortVars, joinVars, genVars, bundleVars>>

\* ------------------------------------------------------------------------
\* Ordering of the files of a target: sort / extractOrder / sortByConfig
\* ------------------------------------------------------------------------
\* the paths of the model, listed in the order of JavaScript's string
\* comparison (the order Array.prototype.sort() puts them in)
PathOrder == <<"a.js", "b.js", "c.css", "c.js">>

\* the paths the calls of sort are made on
Paths == {"a.js", "b.js", "c.js"}

PathRank(p) == CHOOSE i \in DOMAIN PathOrder : PathOrder[i] = p

Range(seq) == {seq[i] : i \in DOMAIN seq}

\* the sequences over S without repetition, of at most n elements
RECURSIVE DistinctSeqs(_, _)
DistinctSeqs(S, n) ==
  IF n = 0 THEN {<<>>}
  ELSE LET shorter == DistinctSeqs(S, n - 1)
       IN shorter \cup
          {Append(q, x) : <<q, x>> \in
             {<<q, x>> \in shorter \X S : Len(q) = n - 1 /\ x \notin Range(q)}}

\* the elements of the set S as a sequence of increasing key
RECURSIVE SortByKey(_, _)
SortByKey(S, key) ==
  IF S = {} THEN <<>>
  ELSE LET m == CHOOSE x \in S : \A y \in S : key[x] <= key[y]
       IN <<m>> \o SortByKey(S \ {m}, key)

RECURSIVE Flatten(_)
Flatten(seqs) ==
  IF seqs = <<>> THEN <<>> ELSE Head(seqs) \o Flatten(Tail(seqs))

\* anymatch: a criterion is a list of matchers, a matcher the set of the
\* paths it accepts (a literal path accepts itself, a predicate what it
\* returns true for).  matchIndex is the position of the first matcher that
\* accepts the path, 0 when there is none.
matchIndex(criterion, p) ==
  IF \E i \in DOMAIN criterion : p \in criterion[i]
    THEN CHOOSE i \in DOMAIN criterion :
           p \in criterion[i] /\ \A j \in 1..(i - 1) : p \notin criterion[j]
    ELSE 0

\* a list of literal paths as a criterion
Literals(list) == [i \in DOMAIN list |-> {list[i]}]

\* anysort's splice(array, criterion): the elements the criterion matches,
\* by the position of the matcher and then alphabetically, and the others,
\* sorted alphabetically.
spliceMatched(array, criterion) ==
  LET S == {p \in Range(array) : matchIndex(criterion, p) # 0}
      key == [p \in S |-> matchIndex(criterion, p) * (Len(PathOrder) + 1) + PathRank(p)]
  IN SortByKey(S, key)

spliceUnmatched(array, criterion) ==
  LET S == {p \in Range(array) : matchIndex(criterion, p) = 0}
  IN SortByKey(S, [p \in S |-> PathRank(p)])

\* what is left of the array after the first i groups took their matches
RECURSIVE remainingAfter(_, _, _)
remainingAfter(array, groups, i) ==
  IF i = 0 THEN array
  ELSE spliceUnmatched(remainingAfter(array, groups, i - 1), groups[i])

\* anysort.grouped(array, groups, order): every group takes, in the order of
\* `groups`, what it matches of the elements no earlier group took; the
\* unmatched rest is one more group, numbered after the last one; the result
\* is the groups concatenated in the order `order` lists their (zero-based)
\* numbers.
grouped(array, groups, order) ==
  LET n == Len(groups)
      sorted == [k \in 0..n |->
                   IF k < n
                     THEN spliceMatched(remainingAfter(array, groups, k), groups[k + 1])
                     ELSE remainingAfter(array, groups, n)]
  IN Flatten([i \in DOMAIN order |->
                IF order[i] \in DOMAIN sorted THEN sorted[order[i]] ELSE <<>>])

\* the order of the groups sortByConfig asks for, with the group of the
\* unmatched paths left out
GroupOrder_DropsUnmatched == <<0, 2, 3, 4, 1>>

\* the third argument of anysort.grouped in sortByConfig
GroupOrder == <<0, 2, 3, 4, 5, 1>>

\* sortByConfig with the first two criteria exchanged: `after` is group 0
\* and `before` is group 1
sortByConfig_AfterFirst(files, config) ==
  LET criteria == <<
        Literals(config.after),
        Literals(config.before),
        Literals(config.joinToValue),
        Literals(config.bower),
        <<config.vendorConvention>> >>
  IN grouped(files, criteria, GroupOrder)

\* sortByConfig(files, config); config is always the object extractOrder
\* made, so the `config !== Object(config)` exit is never taken from sort.
\* config.joinToValue is the array sort put there, or <<>> for `|| []`.
sortByConfig(files, config) ==
  LET criteria == <<
        Literals(config.before),
        Literals(config.after),
        Literals(config.joinToValue),
        Literals(config.bower),
        <<config.vendorConvention>> >>
  IN grouped(files, criteria, GroupOrder)

\* extractOrder(files, config): config.files is the list of its keys
\* (`javascripts`, `stylesheets`, ...) paired with the value of each.
extractOrder(files, config) ==
  LET types == {f.type \o "s" : f \in Range(files)}
      keys == SelectSeq(config.files, LAMBDA e : e.key \in types)
  IN [before |-> Flatten([i \in DOMAIN keys |-> keys[i].order.before]),
      after |-> Flatten([i \in DOMAIN keys |-> keys[i].order.after]),
      vendorConvention |-> config.vendor,
      bower |-> config.bower]

\* a joinTo value that is an array of paths, and one that is not an array
ArrayOf(list) == [isArray |-> TRUE, list |-> list]

NotArray == [isArray |-> FALSE, list |-> <<>>]

\* sort that hands the files back as they came when joinToValue is no array
sort_UnsortedWithoutArray(files, config, joinToValue) ==
  LET paths == [i \in DOMAIN files |-> files[i].path]
      indexes == [p \in Range(paths) |->
                    files[CHOOSE i \in DOMAIN files :
                            files[i].path = p /\ \A j \in DOMAIN files : files[j].path = p => j <= i]]
      order == extractOrder(files, config) @@
               [joinToValue |-> IF joinToValue.isArray THEN joinToValue.list ELSE <<>>]
      sortedPaths == IF joinToValue.isArray THEN sortByConfig(paths, order) ELSE paths
  IN [i \in DOMAIN sortedPaths |-> indexes[sortedPaths[i]]]

\* sort(files, config, joinToValue)
sort(files, config, joinToValue) ==
  LET paths == [i \in DOMAIN files |-> files[i].path]
      indexes == [p \in Range(paths) |->
                    files[CHOOSE i \in DOMAIN files :
                            files[i].path = p /\ \A j \in DOMAIN files : files[j].path = p => j <= i]]
      order == extractOrder(files, config) @@
               [joinToValue |-> IF joinToValue.isArray THEN joinToValue.list ELSE <<>>]
      sortedPaths == sortByConfig(paths, order)
  IN [i \in DOMAIN sortedPaths |-> indexes[sortedPaths[i]]]

\* ---- one call of sort ---------------------------------------------------
\* file lists: pairwise distinct paths, in any enumeration order; either all
\* files are scripts or the last one is a stylesheet
SortFileLists ==
  {[i \in DOMAIN q |->
      [path |-> q[i],
       type |-> IF lastIsCss /\ i = Len(q) THEN "stylesheet" ELSE "javascript"]] :
     <<q, lastIsCss>> \in DistinctSeqs(Paths, Cardinality(Paths)) \X BOOLEAN}

\* the values of packageInfo.bower.order and of conventions.vendor (the set
\* of the paths the convention accepts) the calls are made with
BowerOrders == {<<>>, <<"b.js">>}

VendorConventions == {{}, {"c.js"}}

SortConfigs ==
  {[files |-> <<[key |-> "javascripts", order |-> [before |-> b, after |-> a]],
               [key |-> "stylesheets", order |-> [before |-> <<>>, after |-> ca]]>>,
    vendor |-> v,
    bower |-> bw] :
     <<b, a, ca, v, bw>> \in
       DistinctSeqs(Paths, MaxListLen) \X DistinctSeqs(Paths, MaxListLen) \X
       {<<>>, <<"a.js">>} \X VendorConventions \X BowerOrders}

SortJoinToValues == {NotArray} \cup {ArrayOf(l) : l \in DistinctSeqs(Paths, MaxListLen)}

SortInit ==
  /\ sortIn \in [files : SortFileLists, config : SortConfigs, joinToValue : SortJoinToValues]
  /\ sortOut = [done |-> FALSE, files |-> <<>>]

DoSort ==
  /\ ~sortOut.done
  /\ sortOut' = [done |-> TRUE,
                 files |-> sort(sortIn.files, sortIn.config, sortIn.joinToValue)]
  /\ UNCHANGED sortIn
  /\ UNCHANGED <<workerVars, joinVars, genVars, bundleVars>>

\* C10: sort returns a permutation of its input: the output is as long as
\* the input and every input record appears in it exactly once.
C10_SortIsPermutation ==
  sortOut.done =>
    /\ Len(sortOut.files) = Len(sortIn.files)
    /\ \A i \in DOMAIN sortIn.files :
         Cardinality({j \in DOMAIN sortOut.files : sortOut.files[j] = sortIn.files[i]}) = 1

\* C10: a call on three files where one path is named by both `before` and
\* `after`, one by nothing, and the call reordered its input.
C10_Witness ==
  /\ sortOut.done
  /\ Len(sortIn.files) = 3
  /\ sortOut.files # sortIn.files
  /\ LET o == extractOrder(sortIn.files, sortIn.config)
     IN /\ Range(o.before) \cap Range(o.after) # {}
        /\ \E f \in Range(sortIn.files) :
             /\ f.path \notin Range(o.before) \cup Range(o.after) \cup Range(o.bower)
             /\ f.path \notin o.vendorConvention

\* the order sort handed to sortByConfig in the call, the paths it returned
\* and the position of a path in a sequence of paths (0 when it is absent)
SortOrder ==
  extractOrder(sortIn.files, sortIn.config) @@
  [joinToValue |-> IF sortIn.joinToValue.isArray THEN sortIn.joinToValue.list ELSE <<>>]

SortedPaths == [i \in DOMAIN sortOut.files |-> sortOut.files[i].path]

PosIn(seq, p) ==
  IF p \in Range(seq)
    THEN CHOOSE i \in DOMAIN seq : seq[i] = p /\ \A j \in 1..(i - 1) : seq[j] # p
    ELSE 0

\* C11: in the output of sortByConfig every path `before` matches precedes
\* every path it does not match, the `before` paths are in the order
\* `before` lists them, every path `after` matches (and `before` does not)
\* follows every other path, and the `after` paths are in the order `after`
\* lists them.
C11_BeforeFirstAfterLast ==
  sortOut.done =>
    LET out == SortedPaths
        before == SortOrder.before
        after == SortOrder.after
        isBefore(p) == p \in Range(before)
        isAfter(p) == p \in Range(after) /\ p \notin Range(before)
    IN \A i, j \in DOMAIN out :
         /\ (isBefore(out[i]) /\ ~isBefore(out[j])) => i < j
         /\ (isBefore(out[i]) /\ isBefore(out[j]) /\
               PosIn(before, out[i]) < PosIn(before, out[j])) => i < j
         /\ (isAfter(out[j]) /\ ~isAfter(out[i])) => i < j
         /\ (isAfter(out[i]) /\ isAfter(out[j]) /\
               PosIn(after, out[i]) < PosIn(after, out[j])) => i < j

\* C11: a call on three files where `before` lists two of them against the
\* alphabet, `after` names the third, and the input had the `after` path
\* first: the output is the `before` paths as listed, then the `after` path.
C11_Witness ==
  /\ sortOut.done
  /\ SortOrder.before = <<"c.js", "a.js">>
  /\ Range(SortOrder.after) = {"b.js"}
  /\ [i \in DOMAIN sortIn.files |-> sortIn.files[i].path] = <<"b.js", "a.js", "c.js">>
  /\ SortedPaths = <<"c.js", "a.js", "b.js">>

\* the group the priority explicitOrder, before, after, vendor, remainder
\* assigns a path to, by first match
PriorityGroup(p) ==
  IF p \in Range(SortOrder.joinToValue) THEN 1
  ELSE IF p \in Range(SortOrder.before) THEN 2
  ELSE IF p \in Range(SortOrder.after) THEN 3
  ELSE IF p \in Range(SortOrder.bower) \cup SortOrder.vendorConvention THEN 4
  ELSE 5

\* C12: a path that matches several criteria belongs to the first matching
\* group of the priority explicitOrder (array-valued joinTo), before, after,
\* vendor, remainder: the paths of explicitOrder appear in the output in
\* explicitOrder's relative order, also those `before` or `after` name too,
\* and the output is the concatenation of the groups (the paths of one
\* group are adjacent).
C12_ExplicitOrderFirst ==
  sortOut.done =>
    LET out == SortedPaths
        explicitOrder == SortOrder.joinToValue
    IN \A i, j \in DOMAIN out :
         i < j =>
           /\ (out[i] \in Range(explicitOrder) /\ out[j] \in Range(explicitOrder))
                => PosIn(explicitOrder, out[i]) < PosIn(explicitOrder, out[j])
           /\ PriorityGroup(out[i]) = PriorityGroup(out[j])
                => \A k \in i..j : PriorityGroup(out[k]) = PriorityGroup(out[i])

\* the files of the call in the order of their paths
CanonicalFiles ==
  LET S == Range(sortIn.files)
      byPath == [p \in {f.path : f \in S} |-> CHOOSE f \in S : f.path = p]
      paths == SortByKey(DOMAIN byPath, [p \in DOMAIN byPath |-> PathRank(p)])
  IN [i \in DOMAIN paths |-> byPath[paths[i]]]

\* C13: for a fixed set of files and a fixed ordering spec sort returns the
\* same sequence whatever the enumeration order of the input list: the
\* result of the call is the result of sort on the same files listed in the
\* order of their paths, so any two permutations give the same sequence.
C13_SortIgnoresInputOrder ==
  sortOut.done =>
    sortOut.files = sort(CanonicalFiles, sortIn.config, sortIn.joinToValue)

\* C13: a call on three files that were not listed in the order of their
\* paths, two of which match no criterion at all.
C13_Witness ==
  /\ sortOut.done
  /\ Len(sortIn.files) = 3
  /\ sortIn.files # CanonicalFiles
  /\ Cardinality({f \in Range(sortIn.files) : PriorityGroup(f.path) = 5}) = 2
  /\ sortOut.files = CanonicalFiles

\* ------------------------------------------------------------------------
\* Join resolution: normalizeJoinConfig / createJoinConfig
\* ------------------------------------------------------------------------
\* A JavaScript value that is used as a joinTo or as the value of an entry
\* point: undefined, null, a string (one output path) or an object (output
\* path to matcher).  An object is given as it was written: keys is the
\* list of its own keys in the order they were added, map their values.
Undefined ==
  [kind |-> "undefined", path |-> "", keys |-> <<>>, map |-> [o \in {} |-> "none"]]

Null ==
  [kind |-> "null", path |-> "", keys |-> <<>>, map |-> [o \in {} |-> "none"]]

Str(p) ==
  [kind |-> "string", path |-> p, keys |-> <<>>, map |-> [o \in {} |-> "none"]]

Obj(keys, m) == [kind |-> "object", path |-> "", keys |-> keys, map |-> m]

\* ---- the order of Object.keys --------------------------------------------
IsDigit(c) == \E d \in 0..9 : ToString(d) = c

DigitValue(c) == CHOOSE d \in 0..9 : ToString(d) = c

\* a < b for two strings of digits of the same length
RECURSIVE DigitsLess(_, _)
DigitsLess(a, b) ==
  IF Len(a) = 0 THEN FALSE
  ELSE IF SubSeq(a, 1, 1) = SubSeq(b, 1, 1)
    THEN DigitsLess(SubSeq(a, 2, Len(a)), SubSeq(b, 2, Len(b)))
  ELSE DigitValue(SubSeq(a, 1, 1)) < DigitValue(SubSeq(b, 1, 1))

\* a < b for two array indexes (no leading zero: the shorter is the smaller)
IndexLess(a, b) == Len(a) < Len(b) \/ (Len(a) = Len(b) /\ DigitsLess(a, b))

\* the greatest array index, 2^32 - 2
MaxArrayIndex == "4294967294"

\* a key is an array index when it is the decimal form of an integer of
\* 0 .. 2^32 - 2
IsArrayIndex(k) ==
  /\ Len(k) >= 1
  /\ \A i \in 1..Len(k) : IsDigit(SubSeq(k, i, i))
  /\ Len(k) > 1 => SubSeq(k, 1, 1) # "0"
  /\ k = MaxArrayIndex \/ IndexLess(k, MaxArrayIndex)

RECURSIVE ascending(_)
ascending(indexes) ==
  IF indexes = {} THEN <<>>
  ELSE LET least == CHOOSE a \in indexes : \A b \in indexes \ {a} : IndexLess(a, b)
       IN <<least>> \o ascending(indexes \ {least})

\* Object.keys of an object whose keys were added in the order `written`:
\* the array indexes ascending, then the other keys in the order they were
\* added
OwnKeyOrder(written) ==
  ascending({written[i] : i \in {i \in DOMAIN written : IsArrayIndex(written[i])}})
    \o SelectSeq(written, LAMBDA k : ~IsArrayIndex(k))

\* Object.keys(value): a TypeError for undefined and null, else the own
\* enumerable keys; those of a string are the indexes of its characters,
\* "0", "1", ...
ObjectKeys(v) ==
  IF v.kind \in {"undefined", "null"} THEN [error |-> "TypeError", keys |-> <<>>]
  ELSE IF v.kind = "string"
    THEN [error |-> "none", keys |-> [i \in 1..Len(v.path) |-> ToString(i - 1)]]
  ELSE [error |-> "none", keys |-> OwnKeyOrder(v.keys)]

\* ---- normalizeJoinConfig -------------------------------------------------
\* Object.keys(object), object being {[joinTo]: () => true} for a string
\* and joinTo || {} for the rest
sourceKeys(joinTo) ==
  IF joinTo.kind = "string" THEN <<joinTo.path>>
  ELSE IF joinTo.kind \in {"undefined", "null"} THEN <<>>
  ELSE ObjectKeys(joinTo).keys

\* the keys a function does not let an object that inherits from it set:
\* its own read-only name and length, and the throwing accessors arguments
\* and caller of Function.prototype
ReadOnlyFunctionKeys == {"name", "length", "arguments", "caller"}

\* `anymatch` is a free identifier of config/index.js: the file neither
\* declares nor requires it, so line 88 looks it up in the global scope
\* when it runs.  Without a global of this name the lookup is a
\* ReferenceError; with one, the call returns the predicate.
AnymatchBindings == {"undeclared", "function"}

\* what a call returns when it throws
NothingNormalized(error) ==
  [error |-> error, keys |-> <<>>, map |-> [o \in {} |-> "none"],
   prototype |-> "Object.prototype"]

\* normalizeJoinConfig(joinTo) with the binding of `anymatch`: the error it
\* throws, or the object it returns: its own keys in the order of
\* Object.keys, output path to predicate, and its prototype.
\*  - the reduce calls anymatch for the first key of Object.keys(object):
\*    a ReferenceError when anymatch is not declared;
\*  - subCfg['__proto__'] = anymatch(checker) adds no key to subCfg, it
\*    makes the predicate the prototype of subCfg;
\*  - after that, subCfg[path] = ... is a TypeError (the file is in strict
\*    mode) for a path of ReadOnlyFunctionKeys.
\* The predicate of a string joinTo accepts every file, the other ones are
\* anymatch(checker).
normalizeJoinConfig(joinTo, anymatch) ==
  LET keys == sourceKeys(joinTo)
      own == SelectSeq(keys, LAMBDA k : k # "__proto__")
      readOnly == \E i, j \in DOMAIN keys :
                    i < j /\ keys[i] = "__proto__" /\ keys[j] \in ReadOnlyFunctionKeys
  IN IF keys # <<>> /\ anymatch = "undeclared" THEN NothingNormalized("ReferenceError")
     ELSE IF readOnly THEN NothingNormalized("TypeError")
     ELSE [error |-> "none",
           keys |-> own,
           map |-> [o \in {own[i] : i \in DOMAIN own} |->
                      IF joinTo.kind = "string" THEN "always" ELSE joinTo.map[o]],
           prototype |-> IF \E i \in DOMAIN keys : keys[i] = "__proto__"
                           THEN "predicate" ELSE "Object.prototype"]

\* the keys every plain object inherits from Object.prototype; `in` finds
\* them as it finds the own keys
InheritedKeys ==
  {"constructor", "hasOwnProperty", "isPrototypeOf", "propertyIsEnumerable",
   "toLocaleString", "toString", "valueOf", "__proto__", "__defineGetter__",
   "__defineSetter__", "__lookupGetter__", "__lookupSetter__"}

\* the keys an object inherits in addition when its prototype is a function
FunctionKeys == {"length", "name", "arguments", "caller", "apply", "bind", "call"}

\* the keys k with `k in subCfg`, subCfg being what normalizeJoinConfig
\* returned
keysIn(subCfg) ==
  DOMAIN subCfg.map \cup InheritedKeys
    \cup (IF subCfg.prototype = "predicate" THEN FunctionKeys ELSE {})

\* const alreadyDefined = Object.keys(entryCfg).some(out => out in joinConfig[type])
\* with the TypeError of Object.keys
alreadyDefined(entryCfg, joinConfigOfType) ==
  LET keys == ObjectKeys(entryCfg)
  IN [error |-> keys.error,
      value |-> \E i \in DOMAIN keys.keys : keys.keys[i] \in keysIn(joinConfigOfType)]

\* one logger.warn per output path of the entry that is in outPaths already,
\* in the order of Object.keys(normalizedEntryCfg)
usedWarnings(keys, outPaths, target) ==
  LET used == SelectSeq(keys, LAMBDA o : o \in outPaths)
  IN [i \in DOMAIN used |->
        "already used by another entry point: " \o used[i] \o " for " \o target]

\* the loop over Object.keys(normalizedEntryCfg): the paths of outPaths are
\* deleted from the entry, the others are pushed to outPaths
keptPaths(normalizedEntryCfg, outPaths) ==
  [o \in DOMAIN normalizedEntryCfg \ outPaths |-> normalizedEntryCfg[o]]

\* target.startsWith(prefix)
startsWith(target, prefix) ==
  Len(prefix) <= Len(target) /\ SubSeq(target, 1, Len(prefix)) = prefix

\* fileCfg.entryPoints is given as it was written: the list of its entries
\* [target, value] in the order they were added, the targets distinct.
\* Object.keys(fileCfg.entryPoints):
entryTargets(entries) == OwnKeyOrder([i \in DOMAIN entries |-> entries[i].target])

\* fileCfg.entryPoints[target]
entryCfgOf(entries, target) ==
  entries[CHOOSE i \in DOMAIN entries : entries[i].target = target].value

\* Object.keys(fileCfg.entryPoints).forEach(target => ...) from the target
\* at position i on; acc is [points: entryPoints[type] built so far,
\* outPaths, warnings: what the call logged so far, error: what it threw].
\* entryPoints[type]['__proto__'] = normalizedEntryCfg adds no key to
\* entryPoints[type].
RECURSIVE addEntryPoints(_, _, _, _, _, _)
addEntryPoints(entries, i, joinConfigOfType, watched, anymatch, acc) ==
  IF i > Len(entryTargets(entries)) \/ acc.error # "none" THEN acc
  ELSE
    LET target == entryTargets(entries)[i]
        isTargetWatched == \E path \in watched : startsWith(target, path \o "/")
        acc1 == IF isTargetWatched THEN acc
                ELSE [acc EXCEPT !.warnings = Append(@, "not an input file: " \o target)]
        entryCfg == entryCfgOf(entries, target)
        defined == alreadyDefined(entryCfg, joinConfigOfType)
        normalizedEntryCfg == normalizeJoinConfig(entryCfg, anymatch)
        kept == keptPaths(normalizedEntryCfg.map, acc1.outPaths)
        next ==
          IF defined.error # "none" THEN [acc1 EXCEPT !.error = defined.error]
          ELSE IF defined.value
            THEN [acc1 EXCEPT !.warnings = Append(@, "joinTo already defined: " \o target)]
          ELSE IF normalizedEntryCfg.error # "none"
            THEN [acc1 EXCEPT !.error = normalizedEntryCfg.error]
          ELSE [points |-> [k \in DOMAIN acc1.points \cup ({target} \ {"__proto__"}) |->
                              IF k = target THEN kept ELSE acc1.points[k]],
                outPaths |-> acc1.outPaths \cup DOMAIN kept,
                warnings |-> acc1.warnings
                               \o usedWarnings(normalizedEntryCfg.keys, acc1.outPaths, target),
                error |-> "none"]
    IN addEntryPoints(entries, i + 1, joinConfigOfType, watched, anymatch, next)

\* config.files is given as it was written: keys is the list of its types
\* in the order they were added, files maps a type to [hasJoinTo, joinTo,
\* hasEntryPoints, entryPoints].
NoFileCfg ==
  [hasJoinTo |-> FALSE, joinTo |-> Undefined, hasEntryPoints |-> FALSE, entryPoints |-> <<>>]

hasType(cfgFiles, type) == \E i \in DOMAIN cfgFiles.keys : cfgFiles.keys[i] = type

\* cfgFiles after the first statement of createJoinConfig: templates is
\* created when it is missing and gets the joinTo of javascripts when it has
\* none of its own.
inheritTemplates(cfgFiles) ==
  IF hasType(cfgFiles, "javascripts") /\ cfgFiles.files["javascripts"].hasJoinTo
    THEN LET templates == IF hasType(cfgFiles, "templates")
                            THEN cfgFiles.files["templates"] ELSE NoFileCfg
             withJoinTo == IF templates.hasJoinTo THEN templates
                           ELSE [templates EXCEPT !.hasJoinTo = TRUE,
                                                  !.joinTo = cfgFiles.files["javascripts"].joinTo]
         IN [keys |-> IF hasType(cfgFiles, "templates") THEN cfgFiles.keys
                      ELSE Append(cfgFiles.keys, "templates"),
             files |-> [t \in DOMAIN cfgFiles.files \cup {"templates"} |->
                          IF t = "templates" THEN withJoinTo ELSE cfgFiles.files[t]]]
    ELSE cfgFiles

\* the body of types.forEach(type => ...) for one type: acc is what the
\* types before it left, added what the entry points of this type add to it
afterType(type, fileCfg, acc, added) ==
  IF ~fileCfg.hasEntryPoints THEN acc
  ELSE IF type # "javascripts"
    THEN [acc EXCEPT !.warnings =
            Append(@, "entryPoints only with javascripts, not " \o type)]
  ELSE [points |-> [acc.points EXCEPT ![type] = added.points],
        outPaths |-> added.outPaths,
        warnings |-> added.warnings,
        error |-> added.error]

\* types.forEach(type => ...) from the type at position i on; acc is
\* [points: type to entryPoints[type], outPaths, warnings, error].
RECURSIVE forEachType(_, _, _, _, _, _, _)
forEachType(types, i, cfgFiles, joinConfig, watched, anymatch, acc) ==
  IF i > Len(types) \/ acc.error # "none" THEN acc
  ELSE forEachType(types, i + 1, cfgFiles, joinConfig, watched, anymatch,
         afterType(types[i], cfgFiles.files[types[i]], acc,
                   addEntryPoints(cfgFiles.files[types[i]].entryPoints, 1,
                                  joinConfig[types[i]], watched, anymatch,
                                  [points |-> acc.points[types[i]],
                                   outPaths |-> acc.outPaths,
                                   warnings |-> acc.warnings, error |-> "none"])))

\* what a call that throws leaves: no mapping, and the warnings it logged
\* before
NothingResolved(error, warnings) ==
  [error |-> error,
   entryPoints |-> [type \in {} |-> [k \in {} |-> [o \in {} |-> "none"]]],
   warnings |-> warnings]

\* types.reduce((joinConfig, type) => ...): the normalized joinTo of every
\* type
joinConfigOf(cfgFiles, types, anymatch) ==
  [type \in {types[i] : i \in DOMAIN types} |->
     normalizeJoinConfig(cfgFiles.files[type].joinTo, anymatch)]

\* the error of the first type whose joinTo normalizeJoinConfig throws on
firstError(types, joinConfig) ==
  LET failed == {i \in DOMAIN types : joinConfig[types[i]].error # "none"}
  IN IF failed = {} THEN "none"
     ELSE joinConfig[types[CHOOSE i \in failed : \A j \in failed : i <= j]].error

\* types.reduce((entryPoints, type) => ...): entryPoints[type] is
\* {'*': joinConfig[type]}
defaultEntryPoints(types, joinConfig) ==
  [type \in {types[i] : i \in DOMAIN types} |-> [k \in {"*"} |-> joinConfig[type].map]]

\* what the call returns or throws once types.forEach is over
afterTypes(types, resolved) ==
  IF resolved.error # "none" THEN NothingResolved(resolved.error, resolved.warnings)
  ELSE [error |-> "none",
        entryPoints |-> [type \in {types[i] : i \in DOMAIN types} \ {"__proto__"} |->
                           resolved.points[type]],
        warnings |-> resolved.warnings]

\* createJoinConfig from line 113 on
resolveTypes(cfgFiles, types, joinConfig, watched, anymatch) ==
  IF firstError(types, joinConfig) # "none"
    THEN NothingResolved(firstError(types, joinConfig), <<>>)
  ELSE afterTypes(types,
         forEachType(types, 1, cfgFiles, joinConfig, watched, anymatch,
                     [points |-> defaultEntryPoints(types, joinConfig),
                      outPaths |-> {},
                      warnings |-> <<>>,
                      error |-> "none"]))

\* createJoinConfig(cfgFiles, paths) with the binding of `anymatch`: the
\* error it throws, or the mapping it returns: type to entry key to output
\* path to predicate, the key of the default joinTo being "*"; and the
\* warnings it logged, in the order of the calls of logger.warn.  The
\* mapping has the own keys of the objects: entryPoints['__proto__'] = {}
\* adds no key to it.
createJoinConfig(cfgFiles0, paths, anymatch) ==
  resolveTypes(inheritTemplates(cfgFiles0),
               OwnKeyOrder(inheritTemplates(cfgFiles0).keys),
               joinConfigOf(inheritTemplates(cfgFiles0),
                            OwnKeyOrder(inheritTemplates(cfgFiles0).keys), anymatch),
               paths.watched, anymatch)

\* ---- one call of createJoinConfig ---------------------------------------
\* output paths; "0" is an output path that is also the index of a
\* character, "constructor" one that is also a key every object inherits
OutPaths == {"app.js", "0", "constructor"}

\* entry files: one in a directory of a watched path, one outside of them
EntryTargets == {"app/sub/init.js", "public/main.js"}

Watched == {"app"}

Matchers == {"matcher"}

\* the object with the keys of `keys`, added in this order
ObjectOf(keys) == Obj(keys, [o \in {keys[i] : i \in DOMAIN keys} |-> "matcher"])

\* objects of one or two output paths, written in either order
JoinObjects == {ObjectOf(keys) : keys \in DistinctSeqs(OutPaths, 2) \ {<<>>}}

JoinValues == {Str(p) : p \in OutPaths} \cup JoinObjects

\* a joinTo with the output path '__proto__', alone and before or after
\* the output path 'name'
ProtoJoinValues ==
  {Str("__proto__"), ObjectOf(<<"__proto__">>),
   ObjectOf(<<"__proto__", "name">>), ObjectOf(<<"name", "__proto__">>)}

\* the values of entry points: those of a joinTo, the output path 'name',
\* an object without keys and a missing value
EntryValues == JoinValues \cup {ObjectOf(<<"name">>), ObjectOf(<<>>), Undefined}

EntryPointLists ==
  {[i \in DOMAIN ts |-> [target |-> ts[i], value |-> vs[i]]] :
     <<ts, vs>> \in
       {<<ts, vs>> \in DistinctSeqs(EntryTargets, MaxEntryPoints) \X
                       UNION {[1..n -> EntryValues] : n \in 0..MaxEntryPoints} :
          Len(ts) = Len(vs)}}

\* entryPoints is absent, {} or an object of one or two entries
JsFileCfgs ==
  {[hasJoinTo |-> j.kind # "undefined", joinTo |-> j,
    hasEntryPoints |-> h, entryPoints |-> e] :
     <<j, e, h>> \in {<<j, e, h>> \in
                        ({Undefined} \cup JoinValues \cup ProtoJoinValues)
                          \X EntryPointLists \X BOOLEAN :
                        e # <<>> => h}}

\* the other types: without a joinTo, with one, and without a joinTo but
\* with a (misplaced) entry point
OtherFileCfgs ==
  {[hasJoinTo |-> j.kind # "undefined", joinTo |-> j,
    hasEntryPoints |-> e # <<>>, entryPoints |-> e] :
     <<j, e>> \in {<<Undefined, <<>> >>, <<Str("app.css"), <<>> >>,
                   <<Undefined, <<[target |-> "app/sub/init.js",
                                   value |-> Str("app.css")]>> >>}}

\* config.files: javascripts alone, with stylesheets written before or
\* after it, or with templates after it
JoinLayouts == {"alone", "stylesheets first", "stylesheets last", "templates last"}

JoinCfgFilesOf(layout, js, other) ==
  IF layout = "alone"
    THEN [keys |-> <<"javascripts">>, files |-> [t \in {"javascripts"} |-> js]]
  ELSE IF layout = "templates last"
    THEN [keys |-> <<"javascripts", "templates">>,
          files |-> [t \in {"javascripts", "templates"} |->
                       IF t = "javascripts" THEN js ELSE other]]
  ELSE [keys |-> IF layout = "stylesheets first"
                   THEN <<"stylesheets", "javascripts">>
                   ELSE <<"javascripts", "stylesheets">>,
        files |-> [t \in {"javascripts", "stylesheets"} |->
                     IF t = "javascripts" THEN js ELSE other]]

\* ---- the objects of the mapping and what Object.freeze does to them ------
\* An object of the mapping is named by the keys that lead to it: <<>> is
\* the mapping itself (type to entries), <<type>> the entries of a type
\* (entry key to outputs) and <<type, key>> the outputs of an entry (output
\* path to predicate).
ObjectRefs(entryPoints) ==
  {<<>>} \cup {<<type>> : type \in DOMAIN entryPoints}
         \cup UNION {{<<type, key>> : key \in DOMAIN entryPoints[type]} :
                       type \in DOMAIN entryPoints}

ObjectAt(entryPoints, ref) ==
  IF Len(ref) = 0 THEN entryPoints
  ELSE IF Len(ref) = 1 THEN entryPoints[ref[1]]
  ELSE entryPoints[ref[1]][ref[2]]

\* the mapping with the object at ref exchanged for another one
WithObjectAt(entryPoints, ref, object) ==
  IF Len(ref) = 0 THEN object
  ELSE IF Len(ref) = 1 THEN [entryPoints EXCEPT ![ref[1]] = object]
  ELSE [entryPoints EXCEPT ![ref[1]][ref[2]] = object]

\* `return Object.freeze(entryPoints)`: Object.freeze makes the object it is
\* given non-extensible and its properties read-only, and leaves the objects
\* the properties refer to as they are.  The objects of the mapping that
\* are frozen when createJoinConfig returns:
frozenObjects(entryPoints) == {<<>>}

\* object[key] = value and delete object[key]: without effect on a frozen
\* object (a TypeError in strict mode)
PutProperty(object, isFrozen, key, value) ==
  IF isFrozen THEN object
  ELSE [k \in DOMAIN object \cup {key} |-> IF k = key THEN value ELSE object[k]]

DeleteProperty(object, isFrozen, key) ==
  IF isFrozen THEN object
  ELSE [k \in DOMAIN object \ {key} |-> object[k]]

\* what a holder of the mapping may try to store in an object of it: other
\* (empty) entries for a type, other (empty) outputs for an entry, another
\* predicate for an output path
NewValue(ref) == IF Len(ref) = 2 THEN "other matcher" ELSE [o \in {} |-> "none"]

\* the key a holder adds to an object of the mapping
NewKey == "added"

NoWrite == [object |-> <<>>, op |-> "none", key |-> "", effective |-> FALSE]

JoinInit ==
  /\ \E js \in JsFileCfgs, other \in OtherFileCfgs, layout \in JoinLayouts,
          anymatch \in AnymatchBindings :
       /\ layout = "templates last" => ~other.hasEntryPoints
       /\ joinIn = [cfgFiles |-> JoinCfgFilesOf(layout, js, other),
                    paths |-> [watched |-> Watched], anymatch |-> anymatch]
  /\ joinOut = [done |-> FALSE]

DoCreateJoinConfig ==
  /\ ~joinOut.done
  /\ LET result == createJoinConfig(joinIn.cfgFiles, joinIn.paths, joinIn.anymatch)
     IN joinOut' = [done |-> TRUE,
                    frozen |-> IF result.error # "none" THEN {}
                               ELSE frozenObjects(result.entryPoints),
                    lastWrite |-> NoWrite] @@ result
  \* the call changes its first argument: cfgFiles.templates is created or
  \* gets the joinTo of javascripts (before anything can throw)
  /\ joinIn' = [joinIn EXCEPT !.cfgFiles = inheritTemplates(@)]
  /\ UNCHANGED <<workerVars, sortVars, genVars, bundleVars>>

\* a holder of the resolved mapping writes to one of its objects: it adds a
\* key, replaces the value of a key or deletes a key
WriteToMapping(ref, op, key) ==
  /\ joinOut.done
  /\ joinOut.error = "none"
  /\ joinOut.lastWrite = NoWrite
  /\ ref \in ObjectRefs(joinOut.entryPoints)
  /\ LET object == ObjectAt(joinOut.entryPoints, ref)
         isFrozen == ref \in joinOut.frozen
         written == IF op = "delete" THEN DeleteProperty(object, isFrozen, key)
                    ELSE PutProperty(object, isFrozen, key, NewValue(ref))
     IN /\ op = "add" => key = NewKey
        /\ op \in {"replace", "delete"} => key \in DOMAIN object
        /\ joinOut' = [joinOut EXCEPT
                          !.entryPoints = WithObjectAt(@, ref, written),
                          !.lastWrite = [object |-> ref, op |-> op, key |-> key,
                                         effective |-> ~isFrozen]]
  /\ UNCHANGED joinIn
  /\ UNCHANGED <<workerVars, sortVars, genVars, bundleVars>>

WriteAttempt ==
  /\ joinOut.done
  /\ joinOut.error = "none"
  /\ \E ref \in ObjectRefs(joinOut.entryPoints) :
       \E op \in {"add", "replace", "delete"} :
         \E key \in {NewKey} \cup DOMAIN ObjectAt(joinOut.entryPoints, ref) :
           WriteToMapping(ref, op, key)

\* the entry keys of a type under which an output path appears
ClaimingKeys(entryPointsOfType, out) ==
  {k \in DOMAIN entryPointsOfType : out \in DOMAIN entryPointsOfType[k]}

\* the output paths the config declares for a type: those of its default
\* joinTo and those of its entry points (cfgFiles as the call left it)
declaredByJoinTo(type) ==
  LET keys == sourceKeys(joinIn.cfgFiles.files[type].joinTo)
  IN {keys[i] : i \in DOMAIN keys}

declaredByEntry(entry) ==
  LET keys == sourceKeys(entry.value) IN {keys[i] : i \in DOMAIN keys}

\* the entry points of a type that declare an output path, by their
\* position in Object.keys(entryPoints)
entriesDeclaring(type, out) ==
  LET entries == joinIn.cfgFiles.files[type].entryPoints
      targets == entryTargets(entries)
  IN {i \in DOMAIN targets :
        out \in declaredByEntry([target |-> targets[i],
                                 value |-> entryCfgOf(entries, targets[i])])}

\* the entry keys of a type that claim an output path in the mapping the
\* call returned; none when it returned no mapping
claimsOf(type, out) ==
  IF type \in DOMAIN joinOut.entryPoints
    THEN ClaimingKeys(joinOut.entryPoints[type], out) ELSE {}

\* C9: in the mapping createJoinConfig returns every output path of a type
\* appears under at most one entry key, and the claim that remains is the
\* first-declared one: a path of the default joinTo stays with "*", whatever
\* the form of the values of the entry points, and a path only entry points
\* declare is with no other entry point than the first that declares it.
\* A call that throws returns no mapping, so no claim remains of it: the
\* paths of its default joinTo are then under no key at all.
C9_OneClaimPerOutputPath ==
  joinOut.done =>
    \A type \in DOMAIN joinIn.cfgFiles.files :
      \A out \in declaredByJoinTo(type)
                   \cup UNION {declaredByEntry(joinIn.cfgFiles.files[type].entryPoints[i]) :
                                 i \in DOMAIN joinIn.cfgFiles.files[type].entryPoints} :
        /\ Cardinality(claimsOf(type, out)) <= 1
        /\ out \in declaredByJoinTo(type) => claimsOf(type, out) = {"*"}
        /\ out \notin declaredByJoinTo(type) =>
             \A k \in claimsOf(type, out) :
               LET first == CHOOSE i \in entriesDeclaring(type, out) :
                              \A j \in entriesDeclaring(type, out) : i <= j
               IN k = entryTargets(joinIn.cfgFiles.files[type].entryPoints)[first]

\* C15: the mapping createJoinConfig returned is deeply frozen: no add, no
\* delete and no replace takes effect on it after resolution, neither on
\* the mapping of the types, nor on the entries of a type, nor on the
\* outputs of an entry.
C15_JoinConfigDeeplyFrozen ==
  joinOut.done => ~joinOut.lastWrite.effective

\* ------------------------------------------------------------------------
\* Generation: concat / prepareSourceMap / runOptimizer / optimize / generate
\* ------------------------------------------------------------------------
\* ---- concat ------------------------------------------------------------
Fragment(kind, path) == [kind |-> kind, path |-> path]

\* processor that adds the node of the file and never a ';'
processor_NeverSemi(file, isJs) == <<Fragment("file", file.path)>>

\* processor(file): the node of the file, and a ';' after it in a script
\* bundle when the content does not end with one
processor(file, isJs) ==
  <<Fragment("file", file.path)>> \o
  (IF isJs /\ ~file.endsWithSemi THEN <<Fragment("semi", "")>> ELSE <<>>)

\* ---- deppack (a dependency, its code is not part of the repository) -----
\* config.npm is [enabled, packageFiles]: packageFiles are the paths of the
\* files that belong to a package.
\* deppack.needsProcessing(file): the module detection predicate of the
\* concatenator, true of the files of a package
needsProcessing(file, npm) == file.path \in npm.packageFiles

\* deppack.processFiles(root, moduleFiles, processor): every module file is
\* given to processor, in the order of the list
processFiles(moduleFiles, isJs) ==
  Flatten([i \in DOMAIN moduleFiles |-> processor(moduleFiles[i], isJs)])

\* what root.setSourceContent(file.node.source, data) has stored when every
\* file went through processor: the content of each file under its path
sourceContents(files) == [p \in {f.path : f \in Range(files)} |-> "content of " \o p]

\* concat that generates the non-module files ahead of the module files
concat_NonModulesFirst(files, path, hasDefinition, autoRequire, npm) ==
  LET isJs == hasDefinition
      isNpm(f) == npm.enabled /\ needsProcessing(f, npm)
      moduleFiles == SelectSeq(files, LAMBDA f : isNpm(f) \/ f.isModule)
      nonModuleFiles == SelectSeq(files, LAMBDA f : ~(isNpm(f) \/ f.isModule))
      forEach(fs) == Flatten([i \in DOMAIN fs |-> processor(fs[i], isJs)])
      generateModuleFiles == IF npm.enabled /\ Len(moduleFiles) > 0
                               THEN processFiles(moduleFiles, isJs)
                               ELSE forEach(moduleFiles)
      code == IF isJs
                THEN <<Fragment("definition", path)>> \o forEach(nonModuleFiles) \o
                     generateModuleFiles \o
                     [i \in DOMAIN autoRequire |-> Fragment("require", autoRequire[i])]
                ELSE forEach(files)
  IN [code |-> code,
      map |-> [by |-> "concat", file |-> path, sourcesContents |-> sourceContents(files)]]

\* concat(files, path, definitionFn, autoRequire, config); hasDefinition
\* tells whether definitionFn is given, npm is config.npm.  The module
\* files are those with isNpm(f) || f.file.isModule, isNpm being
\* deppack.needsProcessing with npm enabled and () => false without.  The
\* result is {code, map} of root.toStringWithSourceMap.
concat(files, path, hasDefinition, autoRequire, npm) ==
  LET isJs == hasDefinition
      isNpm(f) == npm.enabled /\ needsProcessing(f, npm)
      moduleFiles == SelectSeq(files, LAMBDA f : isNpm(f) \/ f.isModule)
      nonModuleFiles == SelectSeq(files, LAMBDA f : ~(isNpm(f) \/ f.isModule))
      forEach(fs) == Flatten([i \in DOMAIN fs |-> processor(fs[i], isJs)])
      generateModuleFiles == IF npm.enabled /\ Len(moduleFiles) > 0
                               THEN processFiles(moduleFiles, isJs)
                               ELSE forEach(moduleFiles)
      code == IF isJs
                THEN <<Fragment("definition", path)>> \o generateModuleFiles \o
                     forEach(nonModuleFiles) \o
                     [i \in DOMAIN autoRequire |-> Fragment("require", autoRequire[i])]
                ELSE forEach(files)
  IN [code |-> code,
      map |-> [by |-> "concat", file |-> path, sourcesContents |-> sourceContents(files)]]

\* ---- source maps ---------------------------------------------------------
\* no map: null or undefined
NoMap == [by |-> "none", file |-> "", sourcesContents |-> [p \in {} |-> ""]]

\* the path of a file the map of an optimizer has a content for, other
\* than the files of the target
OptimizerSource == "helpers.js"

\* the map an optimizer returns with its result: it has the contents of a
\* file of its own and of a.js
RawMap(optimizerName) ==
  [by |-> optimizerName, file |-> "",
   sourcesContents |-> [p \in {OptimizerSource, "a.js"} |->
                          "content of " \o p \o " in the map of " \o optimizerName]]

\* prepareSourceMap(optimizedMap, sourceFiles): undefined for no map, else a
\* generator made from the map, which keeps the contents of the map, and
\* map._sourcesContents[path] = source for every file of the target
prepareSourceMap(optimizedMap, sourceFiles) ==
  IF optimizedMap = NoMap THEN NoMap
  ELSE LET paths == {f.path : f \in Range(sourceFiles)}
       IN [optimizedMap EXCEPT !.sourcesContents =
             [p \in DOMAIN @ \cup paths |-> IF p \in paths THEN "source of " \o p ELSE @[p]]]

\* ---- errors --------------------------------------------------------------
NoError == [kind |-> "none", path |-> "", optimizer |-> ""]

\* whatever a plugin throws or rejects with
PluginError == [kind |-> "plugin", path |-> "", optimizer |-> ""]

\* TypeError of `const {data} = optimized` on an empty result
TypeError == [kind |-> "TypeError", path |-> "", optimizer |-> ""]

WriteError == [kind |-> "write", path |-> "", optimizer |-> ""]

\* formatOptimizerError(error, path): called with the error and the path,
\* and with nothing of the optimizer
formatOptimizerError(error, path) ==
  [kind |-> "optimizer", path |-> path, optimizer |-> error.optimizer]

\* ---- the optimizer chain -------------------------------------------------
\* variant of the success handler of runOptimizer that takes the map of the
\* optimizer as it comes, without falling back to the map it received
runOptimizerResult_NoFallback(genFile, optimized) ==
  [data |-> optimized.data,
   path |-> genFile.path,
   map |-> prepareSourceMap(optimized.map, genFile.sourceFiles),
   sourceFiles |-> genFile.sourceFiles,
   code |-> optimized.data]

\* runOptimizer, the success handler: optimized => {data, path, map,
\* sourceFiles, code: data} with map = prepareSourceMap(...) || unoptMap
runOptimizerResult(genFile, optimized) ==
  LET prepared == prepareSourceMap(optimized.map, genFile.sourceFiles)
  IN [data |-> optimized.data,
      path |-> genFile.path,
      map |-> IF prepared = NoMap THEN genFile.map ELSE prepared,
      sourceFiles |-> genFile.sourceFiles,
      code |-> optimized.data]

\* optimize(data, map, path, optimizers, sourceFiles): the initial value of
\* the reduction
optimizeInitial(data, map, path, sourceFiles) ==
  [data |-> data, path |-> path, map |-> map, sourceFiles |-> sourceFiles, code |-> data]

\* ---- generate, the synchronous part ----------------------------------------
\* const type = targets.some(file => file.isJS) ? 'javascript' : 'stylesheet'
targetType(targets) ==
  IF \E f \in Range(targets) : f.isJS THEN "javascript" ELSE "stylesheet"

\* variant of the selection of the optimizers that takes every registered one
selectOptimizers_All(registered, type) == registered

\* respondTo('optimize').filter(optimizer => optimizer.type === type)
selectOptimizers(registered, type) ==
  SelectSeq(registered, LAMBDA optimizer : optimizer.type = type)

\* config.paths.public
PublicPath == "public"

\* an output path is `${config.paths.public}/${joinKey}`
outputPath(joinKey) == PublicPath \o "/" \o joinKey

\* `${path}.map`
mapPathOf(path) == path \o ".map"

\* sysPath.basename(path): what follows the last '/' of the path
RECURSIVE lastSlash(_, _)
lastSlash(path, i) ==
  IF i = 0 THEN 0
  ELSE IF SubSeq(path, i, i) = "/" THEN i
  ELSE lastSlash(path, i - 1)

basename(path) == SubSeq(path, lastSlash(path, Len(path)) + 1, Len(path))

\* the route of the map in the reference comment: the map itself as a data
\* URL (jsonToData), the map path without the public directory it starts
\* with (mapPath.replace(config.paths.public, '')) or its basename
mapRoute(sourceMaps, joinKey, map) ==
  LET mapPath == mapPathOf(outputPath(joinKey))
  IN IF sourceMaps = "inline" THEN "data:application/json;" \o map.by
     ELSE IF sourceMaps = "absoluteUrl"
       THEN SubSeq(mapPath, Len(PublicPath) + 1, Len(mapPath))
     ELSE basename(mapPath)

\* variant of the first .then that appends the reference comment whether
\* maps are enabled or not
appendReference_Always(code, withMaps, type, sourceMaps, joinKey, map) ==
  Append(code, Fragment(IF type = "javascript" THEN "jsReference" ELSE "cssReference",
                        mapRoute(sourceMaps, joinKey, map)))

\* the first .then of generate: with maps, data.code gets the reference
\* comment, `//# ...` in a script and `/*# ... */` in a stylesheet
appendReference(code, withMaps, type, sourceMaps, joinKey, map) ==
  IF withMaps
    THEN Append(code, Fragment(IF type = "javascript" THEN "jsReference" ELSE "cssReference",
                               mapRoute(sourceMaps, joinKey, map)))
    ELSE code

\* promiseReduce(optimizers, runOptimizer, initial): the optimizers are
\* applied one after the other, each to what the one before resolved with;
\* after `done` stages the next one is optimizers[done + 1]
promiseReduceHasNext(optimizers, done) == done < Len(optimizers)

promiseReduceNext(optimizers, done) == optimizers[done + 1]

\* ---- sort and concat of one target, as generate runs them ----------------
SourceFile(path, type, isModule, endsWithSemi) ==
  [path |-> path, type |-> type, isJS |-> type = "javascript",
   isModule |-> isModule, endsWithSemi |-> endsWithSemi]

\* the files of a target: up to three distinct paths in any order, all
\* scripts (module files or not, ending with ';' or not) or all stylesheets
BundleFileLists ==
  UNION {{[i \in DOMAIN q |-> SourceFile(q[i], "javascript", m[i], e[i])] :
            <<m, e>> \in [DOMAIN q -> BOOLEAN] \X [DOMAIN q -> BOOLEAN]}
         \cup
         {[i \in DOMAIN q |-> SourceFile(q[i], "stylesheet", FALSE, e[i])] :
            e \in [DOMAIN q -> BOOLEAN]} :
           q \in DistinctSeqs(Paths, Cardinality(Paths))}

BundleTargets ==
  {[joinKey |-> IF targetType(fs) = "javascript" THEN "app.js" ELSE "app.css",
    files |-> fs,
    joinToValue |-> NotArray,
    autoRequire |-> ar] :
     <<fs, ar>> \in BundleFileLists \X DistinctSeqs(Paths, MaxListLen)}

\* order configs: `before` names no path or one, for both types
\* config.npm: disabled or enabled, c.js being the file of a package
NpmConfigs == [enabled : BOOLEAN, packageFiles : {{"c.js"}}]

BundleOrderConfigs ==
  {[files |-> <<[key |-> "javascripts", order |-> [before |-> b, after |-> <<>>]],
               [key |-> "stylesheets", order |-> [before |-> b, after |-> <<>>]]>>,
    vendor |-> {},
    bower |-> <<>>,
    npm |-> npm] : <<b, npm>> \in DistinctSeqs(Paths, 1) \X NpmConfigs}

BundleInit ==
  /\ bundleIn \in [target : BundleTargets, config : BundleOrderConfigs]
  /\ bundleOut = [done |-> FALSE, sorted |-> <<>>, code |-> <<>>]

\* generate from `const sorted = sort(...)` to the return of concat:
\* definition is norm.modules.definition for a script target, else null
sortAndConcat(target, config) ==
  LET type == targetType(target.files)
      sorted == sort(target.files, config, target.joinToValue)
      out == concat(sorted, outputPath(target.joinKey), type = "javascript",
                    target.autoRequire, config.npm)
  IN [done |-> TRUE, sorted |-> sorted, code |-> out.code]

DoSortAndConcat ==
  /\ ~bundleOut.done
  /\ bundleOut' = sortAndConcat(bundleIn.target, bundleIn.config)
  /\ UNCHANGED bundleIn
  /\ UNCHANGED <<workerVars, sortVars, joinVars, genVars>>

\* ---- a generation cycle: generate() called for every target -------------
Targets == {1, 2}

PluginNames == <<"A", "B", "C", "D">>

\* the first target is a script bundle, the second one a stylesheet or a
\* script bundle
ScriptTarget ==
  [joinKey |-> "app.js",
   files |-> <<SourceFile("a.js", "javascript", FALSE, TRUE),
               SourceFile("b.js", "javascript", TRUE, FALSE)>>,
   joinToValue |-> NotArray,
   autoRequire |-> <<"b.js">>]

SecondTargets ==
  {[joinKey |-> "app.css",
    files |-> <<SourceFile("c.css", "stylesheet", FALSE, FALSE)>>,
    joinToValue |-> NotArray,
    autoRequire |-> <<>>],
   [joinKey |-> "js/lib.js",
    files |-> <<SourceFile("c.js", "javascript", FALSE, FALSE)>>,
    joinToValue |-> ArrayOf(<<"c.js">>),
    autoRequire |-> <<>>]}

\* config.files[...].order, conventions.vendor and the bower order
GenOrderConfig ==
  [files |-> <<[key |-> "javascripts", order |-> [before |-> <<"b.js">>, after |-> <<>>]],
               [key |-> "stylesheets", order |-> [before |-> <<>>, after |-> <<>>]]>>,
   vendor |-> {},
   bower |-> <<>>]

SourceMapModes == {"off", "on", "inline", "absoluteUrl"}

\* npm is enabled in the generation cycles
GenConfigs ==
  [sourceMaps : SourceMapModes,
   npm : {npm \in NpmConfigs : npm.enabled},
   optimizers : {[i \in 1..NumOptimizers |-> [brunchPluginName |-> PluginNames[i], type |-> ty[i]]] :
                   ty \in [1..NumOptimizers -> {"javascript", "stylesheet"}]},
   targets : {[t \in Targets |-> IF t = 1 THEN ScriptTarget ELSE second] :
                second \in SecondTargets}]

NoFile == [written |-> FALSE, code |-> <<>>, map |-> NoMap]

NoGenFile == optimizeInitial(<<>>, NoMap, "", <<>>)

NotStarted ==
  [pc |-> "start", type |-> "", withMaps |-> FALSE, optimizers |-> <<>>, done |-> 0,
   genFile |-> NoGenFile, calls |-> <<>>, error |-> NoError,
   contentWrite |-> "none", mapWrite |-> "none"]

DiskPaths ==
  UNION {{outputPath(k), mapPathOf(outputPath(k))} : k \in {"app.js", "app.css", "js/lib.js"}}

GenInit ==
  /\ genCfg \in GenConfigs
  /\ gen = [t \in Targets |-> NotStarted]
  /\ disk = [p \in DiskPaths |-> NoFile]

\* generate(path, targets, config) up to the call of optimize: the type,
\* the optimizers, sort, concat and withMaps; `target` holds the arguments
\* of the call and what the config says of its joinKey
generate(target, registered, sourceMaps, npm) ==
  LET path == outputPath(target.joinKey)
      type == targetType(target.files)
      optimizers == selectOptimizers(registered, type)
      sorted == sort(target.files, GenOrderConfig, target.joinToValue)
      out == concat(sorted, path, type = "javascript", target.autoRequire, npm)
  IN [NotStarted EXCEPT !.pc = "chain",
                        !.type = type,
                        !.withMaps = sourceMaps # "off",
                        !.optimizers = optimizers,
                        !.genFile = optimizeInitial(out.code, out.map, path, target.files)]

Generate(t) ==
  /\ gen[t].pc = "start"
  /\ gen' = [gen EXCEPT ![t] = generate(genCfg.targets[t], genCfg.optimizers, genCfg.sourceMaps,
                                           genCfg.npm)]
  /\ UNCHANGED <<genCfg, disk>>
  /\ UNCHANGED <<workerVars, sortVars, joinVars, bundleVars>>

\* runOptimizer(optimizer)(genFile) up to the return of optimizer.optimize:
\* the call returns a promise or throws.  An exception leaves runOptimizer
\* as it is and rejects the chain.
CallOptimizer(t, throws) ==
  /\ gen[t].pc = "chain"
  /\ promiseReduceHasNext(gen[t].optimizers, gen[t].done)
  /\ LET optimizer == promiseReduceNext(gen[t].optimizers, gen[t].done)
         call == [optimizer |-> optimizer.brunchPluginName,
                  input |-> gen[t].genFile,
                  outcome |-> IF throws THEN "threw" ELSE "pending",
                  returnedMap |-> FALSE,
                  output |-> NoGenFile]
     IN gen' = [gen EXCEPT ![t] =
                  [@ EXCEPT !.pc = IF throws THEN "rejected" ELSE "optimizing",
                            !.error = IF throws THEN PluginError ELSE @,
                            !.calls = Append(@, call)]]
  /\ UNCHANGED <<genCfg, disk>>
  /\ UNCHANGED <<workerVars, sortVars, joinVars, bundleVars>>

\* the promise of optimizer.optimize fulfils with {data, map?}
OptimizerResolves(t, returnsMap) ==
  /\ gen[t].pc = "optimizing"
  /\ LET n == Len(gen[t].calls)
         name == gen[t].calls[n].optimizer
         optimized == [data |-> Append(gen[t].genFile.data, Fragment("optimized", name)),
                       map |-> IF returnsMap THEN RawMap(name) ELSE NoMap]
         result == runOptimizerResult(gen[t].genFile, optimized)
     IN gen' = [gen EXCEPT ![t] =
                  [@ EXCEPT !.pc = "chain",
                            !.done = @ + 1,
                            !.genFile = result,
                            !.calls[n] = [@ EXCEPT !.outcome = "resolved",
                                                   !.returnedMap = returnsMap,
                                                   !.output = result]]]
  /\ UNCHANGED <<genCfg, disk>>
  /\ UNCHANGED <<workerVars, sortVars, joinVars, bundleVars>>

\* the promise fulfils with nothing: `const {data} = optimized` throws in
\* the success handler
OptimizerResolvesEmpty(t) ==
  /\ gen[t].pc = "optimizing"
  /\ gen' = [gen EXCEPT ![t] =
               [@ EXCEPT !.pc = "rejected",
                         !.error = TypeError,
                         !.calls[Len(gen[t].calls)].outcome = "empty"]]
  /\ UNCHANGED <<genCfg, disk>>
  /\ UNCHANGED <<workerVars, sortVars, joinVars, bundleVars>>

\* the promise rejects: error => { throw formatOptimizerError(error, path) }
OptimizerRejects(t) ==
  /\ gen[t].pc = "optimizing"
  /\ gen' = [gen EXCEPT ![t] =
               [@ EXCEPT !.pc = "rejected",
                         !.error = formatOptimizerError(PluginError, gen[t].genFile.path),
                         !.calls[Len(gen[t].calls)].outcome = "rejected"]]
  /\ UNCHANGED <<genCfg, disk>>
  /\ UNCHANGED <<workerVars, sortVars, joinVars, bundleVars>>

\* variant of AppendReference that does not wait for the optimizers that
\* are left
AppendReference_BeforeChainEnd(t) ==
  /\ gen[t].pc = "chain"
  /\ gen' = [gen EXCEPT ![t] =
               [@ EXCEPT !.pc = "annotated",
                         !.genFile.code =
                            appendReference(@, gen[t].withMaps, gen[t].type, genCfg.sourceMaps,
                                            genCfg.targets[t].joinKey, gen[t].genFile.map)]]
  /\ UNCHANGED <<genCfg, disk>>
  /\ UNCHANGED <<workerVars, sortVars, joinVars, bundleVars>>

\* the first .then after optimize: the reference comment
AppendReference(t) ==
  /\ gen[t].pc = "chain"
  /\ ~promiseReduceHasNext(gen[t].optimizers, gen[t].done)
  /\ gen' = [gen EXCEPT ![t] =
               [@ EXCEPT !.pc = "annotated",
                         !.genFile.code =
                            appendReference(@, gen[t].withMaps, gen[t].type, genCfg.sourceMaps,
                                            genCfg.targets[t].joinKey, gen[t].genFile.map)]]
  /\ UNCHANGED <<genCfg, disk>>
  /\ UNCHANGED <<workerVars, sortVars, joinVars, bundleVars>>

\* variant of StartWrites that writes nothing once a generate call of the
\* cycle has been rejected
StartWrites_UnlessAnyRejected(t) ==
  /\ gen[t].pc = "annotated"
  /\ \A u \in Targets : gen[u].pc # "rejected"
  /\ gen' = [gen EXCEPT ![t] =
               [@ EXCEPT !.pc = "writing",
                         !.contentWrite = "pending",
                         !.mapWrite = IF gen[t].withMaps /\ genCfg.sourceMaps # "inline"
                                        THEN "pending" ELSE "skipped"]]
  /\ UNCHANGED genCfg
  /\ UNCHANGED disk
  /\ UNCHANGED <<workerVars, sortVars, joinVars, bundleVars>>

\* the second .then: Promise.all([writeFile(path, data.code),
\* withMaps && config.sourceMaps !== 'inline' && writeFile(mapPath, ...)])
StartWrites(t) ==
  /\ gen[t].pc = "annotated"
  /\ gen' = [gen EXCEPT ![t] =
               [@ EXCEPT !.pc = "writing",
                         !.contentWrite = "pending",
                         !.mapWrite = IF gen[t].withMaps /\ genCfg.sourceMaps # "inline"
                                        THEN "pending" ELSE "skipped"]]
  /\ UNCHANGED genCfg
  /\ UNCHANGED disk
  /\ UNCHANGED <<workerVars, sortVars, joinVars, bundleVars>>

\* the state of the promise of generate after one of its writes settled:
\* Promise.all rejects with the first failure and fulfils when no write is
\* left
afterWrite(pc, ok, otherWrite) ==
  IF pc # "writing" THEN pc
  ELSE IF ~ok THEN "rejected"
  ELSE IF otherWrite \in {"done", "skipped"} THEN "resolved"
  ELSE pc

\* writeFile(path, data.code) settles
ContentWriteSettles(t, ok) ==
  /\ gen[t].contentWrite = "pending"
  /\ gen' = [gen EXCEPT ![t] =
               [@ EXCEPT !.contentWrite = IF ok THEN "done" ELSE "failed",
                         !.pc = afterWrite(@, ok, gen[t].mapWrite),
                         !.error = IF gen[t].pc = "writing" /\ ~ok THEN WriteError ELSE @]]
  /\ disk' = IF ok
               THEN [disk EXCEPT ![gen[t].genFile.path] =
                       [written |-> TRUE, code |-> gen[t].genFile.code, map |-> NoMap]]
               ELSE disk
  /\ UNCHANGED genCfg
  /\ UNCHANGED <<workerVars, sortVars, joinVars, bundleVars>>

\* writeFile(mapPath, data.map.toString()) settles
MapWriteSettles(t, ok) ==
  /\ gen[t].mapWrite = "pending"
  /\ gen' = [gen EXCEPT ![t] =
               [@ EXCEPT !.mapWrite = IF ok THEN "done" ELSE "failed",
                         !.pc = afterWrite(@, ok, gen[t].contentWrite),
                         !.error = IF gen[t].pc = "writing" /\ ~ok THEN WriteError ELSE @]]
  /\ disk' = IF ok
               THEN [disk EXCEPT ![mapPathOf(gen[t].genFile.path)] =
                       [written |-> TRUE, code |-> <<>>, map |-> gen[t].genFile.map]]
               ELSE disk
  /\ UNCHANGED genCfg
  /\ UNCHANGED <<workerVars, sortVars, joinVars, bundleVars>>

\* the steps of a generate call after its synchronous part that are code
\* of generate: the callbacks the event loop runs once the promise they
\* wait for is fulfilled
CallbackStep(t) ==
  \/ \E throws \in BOOLEAN : CallOptimizer(t, throws)
  \/ AppendReference(t)
  \/ StartWrites(t)

\* the steps that are not: the promise of an optimizer or of a write
\* settles, which nothing in generate brings about or bounds in time
SettleStep(t) ==
  \/ \E returnsMap \in BOOLEAN : OptimizerResolves(t, returnsMap)
  \/ OptimizerResolvesEmpty(t)
  \/ OptimizerRejects(t)
  \/ \E ok \in BOOLEAN : ContentWriteSettles(t, ok)
  \/ \E ok \in BOOLEAN : MapWriteSettles(t, ok)

AsyncStep(t) == CallbackStep(t) \/ SettleStep(t)

\* ------------------------------------------------------------------------
\* Generation: properties
\* ------------------------------------------------------------------------
Started(t) == gen[t].pc # "start"

Settled(t) == gen[t].pc \in {"resolved", "rejected"}

\* the names of the registered optimizers whose type is the content type of
\* the target, in the order of the registration
ExpectedOptimizers(t) ==
  LET isScript == \E f \in Range(genCfg.targets[t].files) : f.type = "javascript"
      wanted == IF isScript THEN "javascript" ELSE "stylesheet"
      matching == SelectSeq(genCfg.optimizers, LAMBDA o : o.type = wanted)
  IN [i \in DOMAIN matching |-> matching[i].brunchPluginName]

CalledOptimizers(t) == [i \in DOMAIN gen[t].calls |-> gen[t].calls[i].optimizer]

ChainFinished(t) == gen[t].pc \in {"annotated", "writing", "resolved"} \/ gen[t].contentWrite # "none"

\* the call of an optimizer that failed: it threw or its promise rejected
FailedCall(call) == call.outcome \in {"threw", "rejected"}

\* C5: the optimizers invoked for a target are those of its content type,
\* in registration order; an optimizer is invoked only when all the earlier
\* ones have resolved, and it receives the data the one before produced.
C5_ChainInOrderAndSequential ==
  \A t \in Targets :
    LET calls == gen[t].calls
        expected == ExpectedOptimizers(t)
    IN /\ Len(calls) <= Len(expected)
       /\ CalledOptimizers(t) = SubSeq(expected, 1, Len(calls))
       /\ ChainFinished(t) => CalledOptimizers(t) = expected
       /\ \A i \in DOMAIN calls :
            /\ i < Len(calls) => calls[i].outcome = "resolved"
            /\ i > 1 => calls[i].input.data = calls[i - 1].output.data
            /\ calls[i].outcome = "resolved" =>
                 /\ Len(calls[i].output.data) = Len(calls[i].input.data) + 1
                 /\ calls[i].output.data[Len(calls[i].output.data)] =
                      Fragment("optimized", calls[i].optimizer)

\* C5: one target ran two optimizers to the end while the other target,
\* of another content type, finished without them.
C5_Witness ==
  \E t, u \in Targets :
    /\ gen[t].pc = "resolved" /\ Len(gen[t].calls) = 2
    /\ gen[u].pc = "resolved" /\ Len(gen[u].calls) = 0
    /\ gen[t].type # gen[u].type

\* C6: when the optimize call of an optimizer fails, by an exception or by
\* a rejected promise, the chain is rejected with a re-wrapped error that
\* names the optimizer and the output path, and no later optimizer runs.
C6_OptimizerFailureAttributed ==
  \A t \in Targets :
    \A i \in DOMAIN gen[t].calls :
      FailedCall(gen[t].calls[i]) =>
        /\ i = Len(gen[t].calls)
        /\ gen[t].pc = "rejected"
        /\ gen[t].error.kind = "optimizer"
        /\ gen[t].error.path = outputPath(genCfg.targets[t].joinKey)
        /\ gen[t].error.optimizer = gen[t].calls[i].optimizer

\* a failure of the target itself: of one of its optimizers or of one of
\* its writes
OwnFailure(t) ==
  \/ \E i \in DOMAIN gen[t].calls : gen[t].calls[i].outcome \in {"threw", "rejected", "empty"}
  \/ gen[t].contentWrite = "failed"
  \/ gen[t].mapWrite = "failed"

\* what holds of the generate call of target t in every state: it is
\* rejected only by a failure of its own, and when it has resolved its whole
\* chain has run and its output is on the disk
GenerateOnItsOwn(t) ==
  /\ gen[t].pc = "rejected" => OwnFailure(t)
  /\ gen[t].pc = "resolved" =>
       /\ CalledOptimizers(t) = ExpectedOptimizers(t)
       /\ disk[outputPath(genCfg.targets[t].joinKey)].written
       /\ disk[outputPath(genCfg.targets[t].joinKey)].code = gen[t].genFile.code

\* the call waits for a promise of its own target: of the optimizer it
\* called, or of its writes
AwaitsOwnPromise(t) == gen[t].pc \in {"optimizing", "writing"}

\* C7: with the generate calls of two targets running concurrently, in any
\* interleaving, a call is rejected only by a failure of its own target,
\* when it resolves its whole chain has run and its output is written, and
\* a call that has started and is not left waiting for ever by a promise
\* of its own optimizers or writes settles, whatever happens to the other
\* call: nothing of the other target, its failure included, holds it up.
C7_TargetsIndependent ==
  \A t \in Targets :
    /\ [](GenerateOnItsOwn(t))
    /\ ([]<>(~AwaitsOwnPromise(t))) => (Started(t) ~> Settled(t))

\* C7: the call of one target was rejected and the call of the other one
\* ran an optimizer, wrote its output and resolved.
C7_Witness ==
  \E t, u \in Targets :
    /\ gen[t].pc = "rejected"
    /\ gen[u].pc = "resolved"
    /\ Len(gen[u].calls) >= 1
    /\ disk[outputPath(genCfg.targets[u].joinKey)].written

\* C8: a stage whose optimizer returns no map hands on the map it received,
\* the map changes only at the stages that return one, the next stage gets
\* the map of the stage before, and no stage changes path or sourceFiles.
C8_MapRetained ==
  \A t \in Targets :
    /\ Started(t) =>
         /\ gen[t].genFile.path = outputPath(genCfg.targets[t].joinKey)
         /\ gen[t].genFile.sourceFiles = genCfg.targets[t].files
    /\ \A i \in DOMAIN gen[t].calls :
         LET call == gen[t].calls[i]
         IN /\ i > 1 => call.input.map = gen[t].calls[i - 1].output.map
            /\ call.outcome = "resolved" =>
                 /\ ~call.returnedMap => call.output.map = call.input.map
                 /\ call.output.map # call.input.map => call.returnedMap
                 /\ call.output.map # NoMap
                 /\ call.output.path = call.input.path
                 /\ call.output.sourceFiles = call.input.sourceFiles

\* C8: the first optimizer of a chain returned a map, the second one did
\* not, and the chain went on with the map of the first.
C8_Witness ==
  \E t \in Targets :
    /\ Len(gen[t].calls) = 2
    /\ gen[t].calls[1].returnedMap
    /\ gen[t].calls[2].outcome = "resolved"
    /\ ~gen[t].calls[2].returnedMap
    /\ gen[t].genFile.map.by = gen[t].calls[1].optimizer

\* the content file and the map file of a target, as they are on the disk
ContentFile(t) == disk[outputPath(genCfg.targets[t].joinKey)]

MapFile(t) == disk[mapPathOf(outputPath(genCfg.targets[t].joinKey))]

IsReference(fragment) == fragment.kind \in {"jsReference", "cssReference"}

\* the content ends with the reference comment of its type
EndsWithReference(code, type) ==
  /\ code # <<>>
  /\ code[Len(code)].kind = IF type = "javascript" THEN "jsReference" ELSE "cssReference"

\* C14: when generate has resolved, the content file is written, the
\* `<path>.map` file is written exactly when source maps are enabled and the
\* mode is not 'inline', and the written content ends with the reference
\* comment of its type exactly when source maps are enabled; with source
\* maps off there is no map file and no reference comment in the content.
C14_WrittenFilesMatchMapMode ==
  \A t \in Targets :
    gen[t].pc = "resolved" =>
      /\ ContentFile(t).written
      /\ MapFile(t).written <=> genCfg.sourceMaps \notin {"off", "inline"}
      /\ EndsWithReference(ContentFile(t).code, targetType(genCfg.targets[t].files))
           <=> genCfg.sourceMaps # "off"
      /\ genCfg.sourceMaps = "off" =>
           \A i \in DOMAIN ContentFile(t).code : ~IsReference(ContentFile(t).code[i])

\* C14: in one cycle with source maps on, a script bundle resolved with its
\* map file written and a `//#` comment at the end of its content, after an
\* optimizer ran, and a stylesheet resolved with a `/*# */` comment.
C14_Witness ==
  /\ genCfg.sourceMaps = "on"
  /\ gen[1].pc = "resolved" /\ gen[2].pc = "resolved"
  /\ gen[1].calls # <<>>
  /\ MapFile(1).written
  /\ ContentFile(1).code[Len(ContentFile(1).code)] = Fragment("jsReference", "app.js.map")
  /\ ContentFile(2).code[Len(ContentFile(2).code)] = Fragment("cssReference", "app.css.map")

\* C17: the stages of a generate call follow one another: the first
\* optimizer is called with the output of concat on the sorted files, no
\* write of the content file or of the map file has started before every
\* optimizer of the chain has resolved, and when an optimizer failed
\* neither file of the target is written.
C17_StagesSequential ==
  \A t \in Targets :
    LET target == genCfg.targets[t]
        type == targetType(target.files)
        concatenated == concat(sort(target.files, GenOrderConfig, target.joinToValue),
                               outputPath(target.joinKey), type = "javascript",
                               target.autoRequire, genCfg.npm)
        writeStarted == \/ gen[t].contentWrite # "none"
                        \/ gen[t].mapWrite # "none"
                        \/ ContentFile(t).written
                        \/ MapFile(t).written
    IN /\ gen[t].calls # <<>> =>
            /\ gen[t].calls[1].input.code = concatenated.code
            /\ gen[t].calls[1].input.map = concatenated.map
       /\ writeStarted =>
            /\ CalledOptimizers(t) = ExpectedOptimizers(t)
            /\ \A i \in DOMAIN gen[t].calls : gen[t].calls[i].outcome = "resolved"
       /\ (\E i \in DOMAIN gen[t].calls : FailedCall(gen[t].calls[i])) =>
            /\ ~writeStarted
            /\ gen[t].pc = "rejected"

\* C17: one target was written after both optimizers of its chain had
\* resolved, and the second optimizer of the other target failed, which
\* left that target without files.
C17_Witness ==
  \E t, u \in Targets :
    /\ Len(gen[t].calls) = 2
    /\ gen[t].pc = "resolved"
    /\ ContentFile(t).written
    /\ Len(gen[u].calls) = 2
    /\ FailedCall(gen[u].calls[2])
    /\ ~ContentFile(u).written /\ ~MapFile(u).written

\* C18: with source maps enabled in a non-inline mode, once generate has
\* settled a content file that carries the reference comment is on the disk
\* only if the map file it refers to is there too.
C18_ContentAndMapAllOrNothing ==
  \A t \in Targets :
    (Settled(t) /\ genCfg.sourceMaps \in {"on", "absoluteUrl"}) =>
      ((/\ ContentFile(t).written
        /\ \E i \in DOMAIN ContentFile(t).code : IsReference(ContentFile(t).code[i]))
         => MapFile(t).written)

\* the positions of the fragment of a file in the code
FilePositions(code, path) == {i \in DOMAIN code : code[i] = Fragment("file", path)}

PositionOf(code, path) == CHOOSE i \in FilePositions(code, path) : TRUE

\* a module file of the bundle: a file flagged isModule or, with npm
\* enabled, a file the module detection predicate classifies
InModulePart(f) ==
  f.isModule \/ (bundleIn.config.npm.enabled /\ needsProcessing(f, bundleIn.config.npm))

\* C16: in a script bundle concat emits the module-definition preamble
\* first, then the module files, then the non-module files (each part in
\* the order of the input), then one require per path of autoRequire in the
\* listed order; every input file has exactly one fragment, and a file
\* whose content does not end with ';' is followed by exactly one ';'.  In
\* a bundle that is no script the output is the fragments of the files in
\* input order and nothing else.  The module files are the files flagged
\* isModule and, with npm enabled, the files of packages.
C16_ConcatOrderAndSeparators ==
  bundleOut.done =>
    LET files == bundleOut.sorted
        code == bundleOut.code
        target == bundleIn.target
        isScript == targetType(target.files) = "javascript"
        autoRequire == target.autoRequire
        firstRequire == Len(code) - Len(autoRequire) + 1
        pos(f) == PositionOf(code, f.path)
    IN /\ \A f \in Range(files) : Cardinality(FilePositions(code, f.path)) = 1
       /\ Cardinality({i \in DOMAIN code : code[i].kind = "file"}) = Len(files)
       /\ isScript =>
            /\ code[1] = Fragment("definition", outputPath(target.joinKey))
            /\ \A i \in 2..Len(code) : code[i].kind # "definition"
            /\ \A f, g \in Range(files) :
                 (InModulePart(f) /\ ~InModulePart(g)) => pos(f) < pos(g)
            /\ \A i, j \in DOMAIN files :
                 (i < j /\ InModulePart(files[i]) = InModulePart(files[j]))
                   => pos(files[i]) < pos(files[j])
            /\ \A f \in Range(files) : pos(f) < firstRequire
            /\ \A k \in DOMAIN autoRequire :
                 code[firstRequire + k - 1] = Fragment("require", autoRequire[k])
            /\ \A i \in DOMAIN code : code[i].kind = "require" => i >= firstRequire
            /\ \A f \in Range(files) :
                 ~f.endsWithSemi =>
                   /\ pos(f) < Len(code)
                   /\ code[pos(f) + 1].kind = "semi"
                   /\ pos(f) + 2 <= Len(code) => code[pos(f) + 2].kind # "semi"
       /\ ~isScript => code = [i \in DOMAIN files |-> Fragment("file", files[i].path)]

\* C16: a script bundle of three files with npm enabled, a non-module file
\* ahead of a file flagged isModule in the input of concat, a file of a
\* package that is not flagged after them, one file without ';' at its end
\* and one with it, and two paths to require.
C16_Witness ==
  /\ bundleOut.done
  /\ Len(bundleOut.sorted) = 3
  /\ targetType(bundleIn.target.files) = "javascript"
  /\ bundleIn.config.npm.enabled
  /\ ~InModulePart(bundleOut.sorted[1]) /\ bundleOut.sorted[2].isModule
  /\ ~bundleOut.sorted[3].isModule /\ InModulePart(bundleOut.sorted[3])
  /\ PositionOf(bundleOut.code, bundleOut.sorted[3].path)
       < PositionOf(bundleOut.code, bundleOut.sorted[1].path)
  /\ \E f, g \in Range(bundleOut.sorted) : f.endsWithSemi /\ ~g.endsWithSemi
  /\ Len(bundleIn.target.autoRequire) = 2
  /\ bundleOut.code[Len(bundleOut.code)] = Fragment("require", bundleIn.target.autoRequire[2])

\* C19 as stated: in a script bundle the contents of the files are in the
\* order sort computed: if sort places X before Y, the content of X
\* precedes the content of Y in the output, also when one of them is a
\* module file and the other one is not.
C19_SortOrderPreserved ==
  (bundleOut.done /\ targetType(bundleIn.target.files) = "javascript") =>
    \A i, j \in DOMAIN bundleOut.sorted :
      i < j => PositionOf(bundleOut.code, bundleOut.sorted[i].path)
                 < PositionOf(bundleOut.code, bundleOut.sorted[j].path)

\* C19 amended: the order sort computed is kept among the module files and
\* among the non-module files: if sort places X before Y and both are
\* module files or neither is, the content of X precedes the content of Y;
\* the content of a module file precedes the content of every non-module
\* file, wherever sort placed the two.  The module files are the files
\* flagged isModule and, with npm enabled, the files of packages.
C19_SortOrderWithinModuleKind ==
  (bundleOut.done /\ targetType(bundleIn.target.files) = "javascript") =>
    \A i, j \in DOMAIN bundleOut.sorted :
      LET X == bundleOut.sorted[i]
          Y == bundleOut.sorted[j]
          before(f, g) == PositionOf(bundleOut.code, f.path) < PositionOf(bundleOut.code, g.path)
      IN /\ (i < j /\ InModulePart(X) = InModulePart(Y)) => before(X, Y)
         /\ (InModulePart(X) /\ ~InModulePart(Y)) => before(X, Y)

\* C19: with npm enabled sort moved c.js, a file of a package that is not
\* flagged isModule, ahead of the module file b.js and left the non-module
\* file a.js between them; in the output c.js and b.js come in the order of
\* sort, and both ahead of a.js.
C19_Witness ==
  /\ bundleOut.done
  /\ targetType(bundleIn.target.files) = "javascript"
  /\ [i \in DOMAIN bundleIn.target.files |-> bundleIn.target.files[i].path]
       = <<"b.js", "a.js", "c.js">>
  /\ [i \in DOMAIN bundleOut.sorted |-> bundleOut.sorted[i].path] = <<"c.js", "a.js", "b.js">>
  /\ bundleIn.config.npm.enabled
  /\ ~bundleOut.sorted[1].isModule /\ InModulePart(bundleOut.sorted[1])
  /\ ~InModulePart(bundleOut.sorted[2]) /\ bundleOut.sorted[3].isModule
  /\ PositionOf(bundleOut.code, "c.js") < PositionOf(bundleOut.code, "b.js")
  /\ PositionOf(bundleOut.code, "b.js") < PositionOf(bundleOut.code, "a.js")

\* ------------------------------------------------------------------------
\* Worker: properties
\* ------------------------------------------------------------------------
\* the responses ({result} or {error}) sent for job id
Responses(id) ==
  {i \in DOMAIN sent : sent[i].id = id /\ sent[i].kind \in {"result", "error"}}

ReadySignals == {i \in DOMAIN sent : sent[i].kind = "ready"}

\* C1: every job message a ready worker received and has finished with (its
\* work is no longer pending) has been answered by exactly one response,
\* {result} or {error}, whatever made the job fail.
C1_ExactlyOneResponse ==
  \A r \in received :
    (r.plugins = "loaded" /\ r.id \notin pending) => Cardinality(Responses(r.id)) = 1

\* C2: a worker whose initialization succeeded is never brought down by a
\* job: whatever job messages it received, the process is still alive.
C2_JobFailureNeverCrashes ==
  (initPhase = "ready" /\ received # {}) => ~crashed

\* C3: at most one of the jobs a ready worker received is in Processing at
\* any time.
C3_OneJobAtATime ==
  Cardinality({r \in received : r.plugins = "loaded" /\ r.id \in pending}) <= 1

\* C4: 'ready' is sent at most once, only when both the config and the
\* plugins are loaded, and never when the initialization failed.
C4_ReadyOnceAfterInit ==
  /\ Cardinality(ReadySignals) <= 1
  /\ ReadySignals # {} => (cfg = "loaded" /\ plugs = "loaded" /\ initPhase = "ready")
  /\ initPhase \in {"loadingConfig", "loadingPlugins", "failed"} => ReadySignals = {}

\* C4: the worker became ready and has answered a job since.
C4_Witness ==
  /\ ReadySignals # {}
  /\ \E r \in received : Responses(r.id) # {}

\* C20: every job message the handler took was deserialized with the plugin
\* set loaded during initialization: no job that arrived while the worker
\* was initializing, or after the initialization failed, was deserialized
\* or executed with `plugs` unset.
C20_JobsUseLoadedPlugins ==
  \A r \in received : r.plugins = "loaded"

\* ------------------------------------------------------------------------
\* Specifications: one per component, the other components at rest
\* ------------------------------------------------------------------------
WorkerIdle ==
  /\ initPhase = None /\ cfg = None /\ plugs = None /\ sent = <<>>
  /\ received = {} /\ pending = {} /\ crashed = FALSE

SortIdle == sortIn = None /\ sortOut = None

JoinIdle == joinIn = None /\ joinOut = None

GenIdle == genCfg = None /\ gen = None /\ disk = None

BundleIdle == bundleIn = None /\ bundleOut = None

\* the worker process
InitWorker == WorkerInit /\ SortIdle /\ JoinIdle /\ GenIdle /\ BundleIdle

NextWorker ==
  \/ LoadConfigResolves
  \/ LoadConfigRejects
  \/ PluginsInitResolves
  \/ PluginsInitRejects
  \/ \E id \in JobIds, type \in MsgTypes, deserializeThrows \in BOOLEAN :
       OnMessage(id, type, deserializeThrows)
  \/ \E id \in JobIds, sendThrows \in BOOLEAN : WorkResolves(id, sendThrows)
  \/ \E id \in JobIds, errorIsNullish \in BOOLEAN : WorkRejects(id, errorIsNullish)

SpecWorker == InitWorker /\ [][NextWorker]_vars

\* calls of sort
InitSort == SortInit /\ WorkerIdle /\ JoinIdle /\ GenIdle /\ BundleIdle

NextSort == DoSort

SpecSort == InitSort /\ [][NextSort]_vars

\* calls of createJoinConfig
InitJoin == JoinInit /\ WorkerIdle /\ SortIdle /\ GenIdle /\ BundleIdle

NextJoin ==
  \/ DoCreateJoinConfig
  \/ WriteAttempt

SpecJoin == InitJoin /\ [][NextJoin]_vars

\* a generation cycle: the generate calls of the targets run concurrently
InitGen == GenInit /\ WorkerIdle /\ SortIdle /\ JoinIdle /\ BundleIdle

NextGen == \E t \in Targets : Generate(t) \/ AsyncStep(t)

SpecGen == InitGen /\ [][NextGen]_vars

\* the same with the scheduling of the event loop: a callback that is ready
\* is run.  Whether the promises of the optimizers and of the writes settle
\* is left open.
SpecGenFair == SpecGen /\ \A t \in Targets : WF_vars(CallbackStep(t))

\* sort and concat of one target
InitBundle == BundleInit /\ WorkerIdle /\ SortIdle /\ JoinIdle /\ GenIdle

NextBundle == DoSortAndConcat

SpecBundle == InitBundle /\ [][NextBundle]_vars

====
